---------------------------- MODULE Spec2Model ----------------------------
(***************************************************************************)
(* A model of blockchain.py: the Blockchain class (ledger, proof of work,  *)
(* chain validation, consensus) and the request handlers built on it.      *)
(*                                                                         *)
(* Python values are encoded so that TLC can compare them:                 *)
(*   - a value that may be None, an int or a str (previous_hash) is a      *)
(*     sequence of naturals tagged by its first element, see PyNone,       *)
(*     PyInt, PyStr;                                                       *)
(*   - addresses of senders and recipients are naturals; the reward        *)
(*     sender '0' is 0;                                                    *)
(*   - SHA-256 is idealised as collision free: the digest of a string is   *)
(*     identified with the string itself (hash), and the digests that      *)
(*     start with '0000' are tabulated from the real function              *)
(*     (ZeroPrefixGuesses).                                                *)
(***************************************************************************)
EXTENDS Integers, Sequences, FiniteSets, TLC

VARIABLES
    chain,                  \* self.chain: the sequence of sealed blocks
    current_transactions,   \* self.current_transactions: the pending buffer
    neigbouring_nodes,      \* self.neigbouring_nodes: set of netlocs
    op,                     \* the operation that produced the current state
    rpc,                    \* position of resolve_conflicts: idle, running, returned, raised
    replaced,               \* local variable `replaced` of resolve_conflicts
    unvisited,              \* nodes the for loop of resolve_conflicts has not reached yet
    promised,               \* the index new_transaction returned for each pending transaction
    startChain,             \* history: self.chain when the running resolve started
    fetched,                \* history: the responses the running resolve has received
    base,                   \* validator harness: the candidate chain drawn as input
    cand,                   \* validator harness: the chain handed to valid_chain
    how,                    \* validator harness: as_is, mutated, truncated
    mutK,                   \* validator harness: position of the mutated block (0: none)
    mutField,               \* validator harness: name of the mutated field
    vres,                   \* validator harness: outcome of valid_chain(cand)
    powLast,                \* proof_of_work: the argument last_proof
    powProof,               \* proof_of_work: the local variable proof
    powPc,                  \* proof_of_work: idle, loop, returned
    hBlock,                 \* hash harness: the field values of the block
    hOrderA,                \* hash harness: insertion order of the first dict
    hOrderB,                \* hash harness: insertion order of the second dict
    hDigestA,               \* hash harness: hash(first dict), PyNone before the call
    hDigestB,               \* hash harness: hash(second dict), PyNone before the call
    mPc,                    \* mine(): idle, read, rewarded, built, done
    mLast,                  \* mine(): the local variable last_block
    mProof,                 \* mine(): the local variable current_proof
    mBlock,                 \* new_block called by mine(): the local variable block
    rHas,                   \* resolve_conflicts: line 78 passed, line 79 not yet run
    rSwap                   \* resolve_conflicts: the local variable chain about to be adopted

ledger == <<chain, current_transactions, neigbouring_nodes>>
call   == <<op, rpc, replaced, unvisited>>
hist   == <<startChain, fetched>>
probe  == <<base, cand, how, mutK, mutField, vres>>
search == <<powLast, powProof, powPc>>
digest == <<hBlock, hOrderA, hOrderB, hDigestA, hDigestB>>
race   == <<mPc, mLast, mProof, mBlock, rHas, rSwap>>
aux    == <<search, digest, race>>
vars   == <<chain, current_transactions, neigbouring_nodes, op, rpc, replaced,
            unvisited, promised, startChain, fetched, base, cand, how, mutK,
            mutField, vres, powLast, powProof, powPc, hBlock, hOrderA, hOrderB,
            hDigestA, hDigestB, mPc, mLast, mProof, mBlock, rHas, rSwap>>

---------------------------------------------------------------------------
(* Bounds of the model. *)

\* Sealing is enabled while the local chain has fewer blocks than this.
MaxChain == 3
\* new_transaction is enabled while the pending buffer is shorter than this.
MaxPending == 2
\* Longest chain a peer sends.
MaxPeerLen == 3

(* Program constants. *)

\* proof of the genesis block
GenesisProof == 100
\* previous_hash of the genesis block
GenesisPreviousHash == 1
\* node_identifier: the uuid of this node, any address that is not '0'
node_identifier == 9
\* status code of a successful fetch
StatusOk == 200

---------------------------------------------------------------------------
(* Python values: None, int, str. *)

PyNone == <<0>>
PyInt(n) == <<1, n>>
PyStr(s) == <<2>> \o s

\* bool(v) as the `or` of new_block uses it: None, 0 and '' are falsy.
Truthy(v) == v # PyNone /\ v # PyInt(0) /\ v # PyStr(<<>>)

Last(s) == s[Len(s)]

\* str(n) for a natural n: its decimal digits.
RECURSIVE Str(_)
Str(n) == IF n < 10 THEN <<n>> ELSE Append(Str(n \div 10), n % 10)

\* int(s) for a sequence of decimal digits.
RECURSIVE Num(_)
Num(s) == IF Len(s) = 0 THEN 0
          ELSE 10 * Num(SubSeq(s, 1, Len(s) - 1)) + s[Len(s)]

\* s is the decimal form of a natural: no leading zero, except "0" itself.
IsDecimal(s) == Len(s) >= 1 /\ (Len(s) > 1 => s[1] # 0)

IsPrefix(p, s) == Len(p) <= Len(s) /\ SubSeq(s, 1, Len(p)) = p

---------------------------------------------------------------------------
(* Hasher *)

\* json.dumps of one transaction with sort_keys: amount, recipient, sender.
DumpsTx(t) == <<t.amount, t.recipient, t.sender>>

RECURSIVE DumpsTxs(_)
DumpsTxs(txs) == IF Len(txs) = 0 THEN <<>>
                 ELSE DumpsTx(txs[1]) \o DumpsTxs(Tail(txs))

\* json.dumps(block, sort_keys=True): the fields in the order index,
\* previous_hash, proof, transactions, whatever order they were inserted in.
\* Variable-length parts carry their length, so the encoding is injective.
Dumps(block) ==
    <<block.index>> \o <<Len(block.previous_hash)>> \o block.previous_hash
        \o <<block.proof>> \o <<Len(block.transactions)>>
        \o DumpsTxs(block.transactions)

\* Blockchain.hash: the hex digest (a str) of the canonical string.
hash(block) == PyStr(Dumps(block))

\* The keys of a block in the order sort_keys=True writes them.
KeyOrder == <<"index", "previous_hash", "proof", "transactions">>

\* A block as a Python dict: its items in insertion order.
Dict(block, order) ==
    [ i \in DOMAIN order |-> [ key |-> order[i], value |-> block[order[i]] ] ]

\* json.dumps without sort_keys: the items as they were inserted.
SortKeys_AsInserted(items) == items

\* sort_keys=True: the items ordered by key.
SortKeys(items) ==
    [ i \in DOMAIN items |->
        items[CHOOSE j \in DOMAIN items : items[j].key = KeyOrder[i]] ]

\* The text json.dumps writes for the value of one key.
DumpsValue(key, value) ==
    IF key \in {"index", "proof"} THEN <<value>>
    ELSE IF key = "previous_hash" THEN <<Len(value)>> \o value
    ELSE <<Len(value)>> \o DumpsTxs(value)

\* The text json.dumps writes for the items, one after the other.
RECURSIVE DumpsItems(_)
DumpsItems(items) ==
    IF Len(items) = 0 THEN <<>>
    ELSE DumpsValue(items[1].key, items[1].value) \o DumpsItems(Tail(items))

\* Blockchain.hash applied to a dict given by its items.
hash_items(items) == PyStr(DumpsItems(SortKeys(items)))

---------------------------------------------------------------------------
(* ProofOfWork *)

\* Every guess string of at most six digits whose SHA-256 digest starts with
\* '0000' (88484 is the shortest; 069732 is last_proof 0 with proof 69732).
ShortZeroPrefixGuesses ==
    { <<8,8,4,8,4>>, <<0,6,9,7,3,2>>, <<1,7,2,6,0,8>>, <<2,6,9,9,2,6>>,
      <<2,7,2,2,7,5>>, <<2,8,4,0,8,8>>, <<3,0,9,1,6,2>>, <<3,3,1,7,3,3>>,
      <<3,9,7,9,0,4>>, <<5,2,0,2,8,7>>, <<5,6,0,6,0,2>>, <<5,9,6,1,3,8>>,
      <<6,3,0,8,8,4>>, <<6,3,7,5,1,9>>, <<6,6,5,7,8,2>>, <<6,8,0,5,9,2>>,
      <<6,9,3,4,9,8>>, <<7,5,4,8,2,2>>, <<7,9,5,1,8,5>>, <<8,6,5,1,2,6>>,
      <<8,8,9,1,4,0>>, <<9,2,9,5,4,3>>, <<9,3,7,1,1,1>>, <<9,6,7,5,0,0>> }

\* The guess strings f'{last_proof}{current_proof}' whose SHA-256 digest
\* starts with '0000', for last_proof among the first eight proofs of the
\* chain mined from the genesis proof (100, 35293, 35089, 119678, 146502,
\* 43538, 85724, 51178) and current_proof in 0..150000, and every guess
\* string of at most six digits.
ZeroPrefixGuesses ==
    { <<1,0,0,3,5,2,9,3>>,           \* 100 . 35293
      <<1,0,0,8,8,1,4,5>>,           \* 100 . 88145
      <<1,0,0,1,2,7,0,9,4>>,         \* 100 . 127094
      <<1,0,0,1,4,6,8,8,8>>,         \* 100 . 146888
      <<3,5,2,9,3,3,5,0,8,9>>,       \* 35293 . 35089
      <<3,5,2,9,3,5,0,2,6,5>>,       \* 35293 . 50265
      <<3,5,0,8,9,1,1,9,6,7,8>>,     \* 35089 . 119678
      <<1,1,9,6,7,8,1,4,6,5,0,2>>,   \* 119678 . 146502
      <<1,4,6,5,0,2,4,3,5,3,8>>,     \* 146502 . 43538
      <<4,3,5,3,8,8,5,7,2,4>>,       \* 43538 . 85724
      <<4,3,5,3,8,1,0,1,2,6,6>>,     \* 43538 . 101266
      <<8,5,7,2,4,5,1,1,7,8>>,       \* 85724 . 51178
      <<8,5,7,2,4,1,0,4,3,9,1>>,     \* 85724 . 104391
      <<8,5,7,2,4,1,4,3,5,7,8>>,     \* 85724 . 143578
      <<5,1,1,7,8,7,1,7,3,0>>,       \* 51178 . 71730
      <<5,1,1,7,8,8,1,0,5,5>>,       \* 51178 . 81055
      <<5,1,1,7,8,9,2,1,7,3>>  }     \* 51178 . 92173
    \cup ShortZeroPrefixGuesses

\* Blockchain.valid_proof: the digest of the concatenated decimal strings
\* starts with four zeroes.
valid_proof(last_proof, current_proof) ==
    (Str(last_proof) \o Str(current_proof)) \in ZeroPrefixGuesses

\* The candidates valid_proof accepts for last_proof.
Accepted(last_proof) ==
    LET p == Str(last_proof)
    IN  { Num(SubSeq(g, Len(p) + 1, Len(g))) :
            g \in { h \in ZeroPrefixGuesses :
                      /\ IsPrefix(p, h)
                      /\ IsDecimal(SubSeq(h, Len(p) + 1, Len(h))) } }

\* Blockchain.proof_of_work: count up from 0 and return the first candidate
\* valid_proof accepts, that is the least accepted candidate.
proof_of_work(last_proof) ==
    CHOOSE proof \in Accepted(last_proof) :
        \A q \in Accepted(last_proof) : proof <= q

---------------------------------------------------------------------------
(* ChainValidator *)

\* The for loop of valid_chain from position i on (1-based), last_block
\* being chain[i-1]: False at the first pair that fails a check.
RECURSIVE ValidFrom(_, _)
ValidFrom(c, i) ==
    IF i > Len(c) THEN TRUE
    ELSE IF c[i].previous_hash # hash(c[i - 1]) THEN FALSE
    ELSE IF ~valid_proof(c[i - 1].proof, c[i].proof) THEN FALSE
    ELSE ValidFrom(c, i + 1)

\* valid_chain without the comparison of previous_hash.
RECURSIVE ProofsValidFrom(_, _)
ProofsValidFrom(c, i) ==
    IF i > Len(c) THEN TRUE
    ELSE IF ~valid_proof(c[i - 1].proof, c[i].proof) THEN FALSE
    ELSE ProofsValidFrom(c, i + 1)

valid_chain_NoHashCheck(c) ==
    IF Len(c) = 0 THEN "IndexError"
    ELSE IF ProofsValidFrom(c, 2) THEN "True" ELSE "False"

\* valid_chain with the verdict of each pair overwriting the previous one:
\* only the last pair decides.
valid_chain_LastPairOnly(c) ==
    IF Len(c) = 0 THEN "IndexError"
    ELSE IF ValidFrom(c, IF Len(c) >= 2 THEN Len(c) ELSE 2) THEN "True"
    ELSE "False"

\* Blockchain.valid_chain: "True" or "False", or "IndexError" when chain[0]
\* does not exist.
valid_chain(c) ==
    IF Len(c) = 0 THEN "IndexError"
    ELSE IF ValidFrom(c, 2) THEN "True" ELSE "False"

---------------------------------------------------------------------------
(* Ledger *)

\* new_block numbering the blocks from 0: the index is the length of the
\* chain before the append.
new_block_IndexFromZero(c, txs, proof, previous_hash) ==
    [ index         |-> Len(c),
      transactions  |-> txs,
      proof         |-> proof,
      previous_hash |-> IF Truthy(previous_hash) THEN previous_hash
                        ELSE hash(Last(c)) ]

\* The block new_block builds on top of chain c from the pending buffer.
new_block(c, txs, proof, previous_hash) ==
    [ index         |-> Len(c) + 1,
      transactions  |-> txs,
      proof         |-> proof,
      previous_hash |-> IF Truthy(previous_hash) THEN previous_hash
                        ELSE hash(Last(c)) ]

\* The genesis block: __init__ calls new_block(previous_hash=1, proof=100)
\* on the empty chain.
Genesis ==
    new_block(<<>>, <<>>, GenesisProof, PyInt(GenesisPreviousHash))

\* The transaction mine() adds to reward this node.
Reward == [sender |-> 0, recipient |-> node_identifier, amount |-> 1]

\* mine() putting its reward before the pending transactions.
MinedBlock_RewardFirst(c, txs) ==
    new_block(c, <<Reward>> \o txs, proof_of_work(Last(c).proof),
              hash(Last(c)))

\* mine() handing last_proof, not the proof it found, to new_block.
MinedBlock_LastProof(c, txs) ==
    new_block(c, Append(txs, Reward), Last(c).proof, hash(Last(c)))

\* The block mine() seals on top of chain c with pending buffer txs.
MinedBlock(c, txs) ==
    new_block(c, Append(txs, Reward), proof_of_work(Last(c).proof),
              hash(Last(c)))

---------------------------------------------------------------------------
(* Inputs *)

\* The transaction clients submit: {sender: 'a', recipient: 'b', amount: 5}.
UserTxs == { [sender |-> 1, recipient |-> 2, amount |-> 5] }

\* Addresses handed to register_node, as urlparse splits them.
Addresses ==
    { [scheme |-> "http", netloc |-> "peerA:5000", path |-> ""],
      [scheme |-> "http", netloc |-> "peerA:5000", path |-> "/chain"],
      [scheme |-> "http", netloc |-> "peerB:5000", path |-> ""] }

Netlocs == { a.netloc : a \in Addresses }

\* The reward transaction of a block mined by a peer.
PeerReward == [sender |-> 0, recipient |-> 8, amount |-> 1]

\* How a peer builds the next block of the chain it sends: correctly, with an
\* index that is not its position, with a previous_hash that is not the hash
\* of its predecessor, or with a proof that fails valid_proof.
Variants == {"ok", "bad_index", "bad_hash", "bad_proof"}

Forge(c, v) ==
    [ index         |-> IF v = "bad_index" THEN Len(c) ELSE Len(c) + 1,
      transactions  |-> <<PeerReward>>,
      proof         |-> IF v = "bad_proof" THEN Last(c).proof
                        ELSE proof_of_work(Last(c).proof),
      previous_hash |-> IF v = "bad_hash" THEN PyInt(GenesisPreviousHash)
                        ELSE hash(Last(c)) ]

\* Every node starts from the same genesis block (it carries no timestamp).
\* The chains of n blocks a peer builds with at most `faults` blocks that
\* are not built correctly.
RECURSIVE ChainsOfLen(_, _)
ChainsOfLen(n, faults) ==
    IF n = 1 THEN { <<Genesis>> }
    ELSE { Append(c, Forge(c, "ok")) : c \in ChainsOfLen(n - 1, faults) }
         \cup (IF faults = 0 THEN {}
               ELSE { Append(c, Forge(c, v)) :
                        c \in ChainsOfLen(n - 1, faults - 1),
                        v \in Variants \ {"ok"} })

\* The chain bodies a peer may send: the empty list, and chains with at most
\* one block that is not built correctly.
PeerChains == { <<>> } \cup UNION { ChainsOfLen(n, 1) : n \in 1..MaxPeerLen }

\* The candidates handed to valid_chain: the empty list, and chains with any
\* number of blocks that are not built correctly.
Candidates ==
    { <<>> } \cup UNION { ChainsOfLen(n, n) : n \in 1..MaxPeerLen }

\* The 'length' a peer reports with chain c: the true one, one that exceeds no
\* local length, or one that exceeds every local length.
ReportedLengths(c) == { 0, Len(c), MaxPeerLen + 1 }

\* What requests.get(f'http://{node}/chain') may produce. reachable = FALSE:
\* requests.get raises ConnectionError. has_length / has_chain: the key is
\* present in response.json().
NoResponse ==
    [ reachable |-> FALSE, status_code |-> 0, has_length |-> FALSE,
      has_chain |-> FALSE, length |-> 0, chain |-> <<>> ]

Responses ==
    { NoResponse }
    \cup { [NoResponse EXCEPT !.reachable = TRUE, !.status_code = 500] }
    \cup { [NoResponse EXCEPT !.reachable = TRUE, !.status_code = StatusOk,
                              !.has_length = hl, !.has_chain = hc] :
             hl \in BOOLEAN, hc \in {FALSE} }
    \cup { [NoResponse EXCEPT !.reachable = TRUE, !.status_code = StatusOk,
                              !.has_length = FALSE, !.has_chain = TRUE] }
    \cup UNION { { [ reachable |-> TRUE, status_code |-> StatusOk,
                      has_length |-> TRUE, has_chain |-> TRUE,
                      length |-> n, chain |-> c ] :
                      n \in ReportedLengths(c) } : c \in PeerChains }

---------------------------------------------------------------------------
(* Ledger operations.  Requests are handled one at a time: no operation     *)
(* starts while resolve_conflicts is running.                               *)

\* Blockchain.__init__
LedgerInit ==
    /\ chain = <<Genesis>>
    /\ current_transactions = <<>>
    /\ neigbouring_nodes = {}
    /\ promised = <<>>

\* No call of resolve_conflicts is open: its locals do not exist.
NoCall ==
    /\ rpc = "idle"
    /\ replaced = FALSE
    /\ unvisited = {}

CallInit ==
    /\ op = "init"
    /\ NoCall

HistInit ==
    /\ startChain = <<Genesis>>
    /\ fetched = <<>>

ProbeIdle ==
    /\ base = <<>>
    /\ cand = <<>>
    /\ how = "as_is"
    /\ mutK = 0
    /\ mutField = "none"
    /\ vres = "none"

\* No call of proof_of_work is in progress.
SearchIdle ==
    /\ powLast = 0
    /\ powProof = 0
    /\ powPc = "idle"

\* No call of hash is being observed.
DigestIdle ==
    /\ hBlock = Genesis
    /\ hOrderA = KeyOrder
    /\ hOrderB = KeyOrder
    /\ hDigestA = PyNone
    /\ hDigestB = PyNone

\* No request is being handled step by step.
RaceIdle ==
    /\ mPc = "idle"
    /\ mLast = Genesis
    /\ mProof = 0
    /\ mBlock = Genesis
    /\ rHas = FALSE
    /\ rSwap = <<>>

AuxIdle == SearchIdle /\ DigestIdle /\ RaceIdle

\* new_transaction with the last sealed block still sharing the buffer: the
\* transaction shows up in that block too.
NewTransaction_SharedBuffer(tx) ==
    /\ rpc # "running"
    /\ Len(current_transactions) < MaxPending
    /\ current_transactions' = Append(current_transactions, tx)
    /\ chain' = [chain EXCEPT ![Len(chain)].transactions = Append(@, tx)]
    /\ promised' = Append(promised, Last(chain).index + 1)
    /\ op' = "new_transaction"
    /\ rpc' = "idle"
    /\ replaced' = FALSE
    /\ unvisited' = {}
    /\ UNCHANGED neigbouring_nodes

\* Blockchain.new_transaction(sender, recipient, amount)
NewTransaction(tx) ==
    /\ rpc # "running"
    /\ Len(current_transactions) < MaxPending
    /\ current_transactions' = Append(current_transactions, tx)
    /\ promised' = Append(promised, Last(chain).index + 1)
    /\ op' = "new_transaction"
    /\ rpc' = "idle"
    /\ replaced' = FALSE
    /\ unvisited' = {}
    /\ UNCHANGED <<chain, neigbouring_nodes>>

\* new_block with the buffer reset before the block is built.
NewBlock_ClearsFirst(proof, previous_hash) ==
    /\ rpc # "running"
    /\ Len(chain) < MaxChain
    /\ chain' = Append(chain, new_block(chain, <<>>, proof, previous_hash))
    /\ current_transactions' = <<>>
    /\ promised' = <<>>
    /\ op' = "new_block"
    /\ rpc' = "idle"
    /\ replaced' = FALSE
    /\ unvisited' = {}
    /\ UNCHANGED neigbouring_nodes

\* Blockchain.new_block(proof, previous_hash)
NewBlock(proof, previous_hash) ==
    /\ rpc # "running"
    /\ Len(chain) < MaxChain
    /\ chain' = Append(chain, new_block(chain, current_transactions, proof,
                                        previous_hash))
    /\ current_transactions' = <<>>
    /\ promised' = <<>>
    /\ op' = "new_block"
    /\ rpc' = "idle"
    /\ replaced' = FALSE
    /\ unvisited' = {}
    /\ UNCHANGED neigbouring_nodes

\* GET /mine
Mine ==
    /\ rpc # "running"
    /\ Len(chain) < MaxChain
    /\ chain' = Append(chain, MinedBlock(chain, current_transactions))
    /\ current_transactions' = <<>>
    /\ promised' = <<>>
    /\ op' = "mine"
    /\ rpc' = "idle"
    /\ replaced' = FALSE
    /\ unvisited' = {}
    /\ UNCHANGED neigbouring_nodes

\* Blockchain.register_node(address)
RegisterNode(address) ==
    /\ rpc # "running"
    /\ neigbouring_nodes' = neigbouring_nodes \cup {address.netloc}
    /\ op' = "register_node"
    /\ rpc' = "idle"
    /\ replaced' = FALSE
    /\ unvisited' = {}
    /\ UNCHANGED <<chain, current_transactions, promised>>

---------------------------------------------------------------------------
(* ConsensusResolver *)

\* The loop body without the call of valid_chain: any chain that reports a
\* greater length is adopted.
VisitOutcome_NoValidation(c, resp) ==
    IF ~resp.reachable THEN "raise"
    ELSE IF resp.status_code # StatusOk THEN "skip"
    ELSE IF ~resp.has_length \/ ~resp.has_chain THEN "raise"
    ELSE IF ~(resp.length > Len(c)) THEN "skip"
    ELSE "adopt"

\* One iteration of the for loop of resolve_conflicts on the local chain c:
\* "raise" (the exception leaves resolve_conflicts), "adopt" or "skip".
VisitOutcome(c, resp) ==
    IF ~resp.reachable THEN "raise"
    ELSE IF resp.status_code # StatusOk THEN "skip"
    ELSE IF ~resp.has_length \/ ~resp.has_chain THEN "raise"
    ELSE IF ~(resp.length > Len(c)) THEN "skip"
    ELSE IF valid_chain(resp.chain) = "IndexError" THEN "raise"
    ELSE IF valid_chain(resp.chain) = "True" THEN "adopt"
    ELSE "skip"

\* resolve_conflicts is entered: replaced = False, the loop starts.
ResolveBegin ==
    /\ rpc # "running"
    /\ rpc' = "running"
    /\ replaced' = FALSE
    /\ unvisited' = neigbouring_nodes
    /\ op' = "resolve_conflicts"
    /\ UNCHANGED <<chain, current_transactions, neigbouring_nodes, promised>>

\* The loop body dropping the pending transactions when it adopts a chain.
ResolveVisit_DropsPending(node, resp) ==
    /\ rpc = "running"
    /\ node \in unvisited
    /\ unvisited' = unvisited \ {node}
    /\ LET o == VisitOutcome(chain, resp)
       IN  /\ rpc' = IF o = "raise" THEN "raised" ELSE "running"
           /\ chain' = IF o = "adopt" THEN resp.chain ELSE chain
           /\ replaced' = IF o = "adopt" THEN TRUE ELSE replaced
           /\ current_transactions' =
                 IF o = "adopt" THEN <<>> ELSE current_transactions
           /\ promised' = IF o = "adopt" THEN <<>> ELSE promised
    /\ UNCHANGED <<neigbouring_nodes, op>>

\* The loop body for one node, in whatever order the set is iterated.
ResolveVisit(node, resp) ==
    /\ rpc = "running"
    /\ node \in unvisited
    /\ unvisited' = unvisited \ {node}
    /\ LET o == VisitOutcome(chain, resp)
       IN  /\ rpc' = IF o = "raise" THEN "raised" ELSE "running"
           /\ chain' = IF o = "adopt" THEN resp.chain ELSE chain
           /\ replaced' = IF o = "adopt" THEN TRUE ELSE replaced
    /\ UNCHANGED <<current_transactions, neigbouring_nodes, promised, op>>

\* return replaced
ResolveReturn ==
    /\ rpc = "running"
    /\ unvisited = {}
    /\ rpc' = "returned"
    /\ UNCHANGED <<chain, current_transactions, neigbouring_nodes, promised,
                   op, replaced, unvisited>>

---------------------------------------------------------------------------
(* The ledger with all its operations, one request at a time. *)

Init == LedgerInit /\ CallInit /\ HistInit /\ ProbeIdle /\ AuxIdle

\* The proof a caller of new_block passes: the one proof_of_work found.
ProofInputs == { proof_of_work(Last(chain).proof) }

\* The previous_hash a caller of new_block passes: none, a falsy value, or
\* the hash of the last block as mine() does.
PreviousHashInputs ==
    { PyNone, PyInt(0), PyStr(<<>>), hash(Last(chain)) }

Next ==
    \/ \E tx \in UserTxs : NewTransaction(tx) /\ UNCHANGED <<hist, probe, aux>>
    \/ \E p \in ProofInputs, h \in PreviousHashInputs :
          NewBlock(p, h) /\ UNCHANGED <<hist, probe, aux>>
    \/ Mine /\ UNCHANGED <<hist, probe, aux>>
    \/ \E a \in Addresses : RegisterNode(a) /\ UNCHANGED <<hist, probe, aux>>
    \/ ResolveBegin /\ UNCHANGED <<hist, probe, aux>>
    \/ \E n \in Netlocs, r \in Responses :
          ResolveVisit(n, r) /\ UNCHANGED <<hist, probe, aux>>
    \/ ResolveReturn /\ UNCHANGED <<hist, probe, aux>>

Spec == Init /\ [][Next]_vars

TypeOK ==
    /\ Len(chain) >= 1
    /\ rpc \in {"idle", "running", "returned", "raised"}
    /\ replaced \in BOOLEAN
    /\ unvisited \subseteq neigbouring_nodes
    /\ Len(promised) = Len(current_transactions)

---------------------------------------------------------------------------
(* The ledger as the request handlers drive it, one request at a time:     *)
(* POST /transactions/new, GET /mine, POST /nodes/register and             *)
(* GET /nodes/resolve. new_block is reached through mine() only.           *)

\* POST /nodes/register with a list of addresses: register_node for each.
RegisterNodes(nodes) ==
    /\ rpc # "running"
    /\ neigbouring_nodes' = neigbouring_nodes \cup { a.netloc : a \in nodes }
    /\ op' = "register_nodes"
    /\ rpc' = "idle"
    /\ replaced' = FALSE
    /\ unvisited' = {}
    /\ UNCHANGED <<chain, current_transactions, promised>>

NextHttp ==
    \/ \E tx \in UserTxs : NewTransaction(tx) /\ UNCHANGED <<hist, probe, aux>>
    \/ Mine /\ UNCHANGED <<hist, probe, aux>>
    \/ \E nodes \in SUBSET Addresses :
          RegisterNodes(nodes) /\ UNCHANGED <<hist, probe, aux>>
    \/ ResolveBegin /\ UNCHANGED <<hist, probe, aux>>
    \/ \E n \in Netlocs, r \in Responses :
          ResolveVisit(n, r) /\ UNCHANGED <<hist, probe, aux>>
    \/ ResolveReturn /\ UNCHANGED <<hist, probe, aux>>

SpecHttp == Init /\ [][NextHttp]_vars

---------------------------------------------------------------------------
(* One call of resolve_conflicts observed from start to end: the ledger    *)
(* starts with a chain this node mined and both peers registered; the      *)
(* chain at the start and every response received are kept as history.     *)

\* The chain of n blocks this node mines from genesis with nothing pending.
RECURSIVE MinedChain(_)
MinedChain(n) ==
    IF n = 1 THEN <<Genesis>>
    ELSE Append(MinedChain(n - 1), MinedBlock(MinedChain(n - 1), <<>>))

InitResolve ==
    /\ chain \in { MinedChain(n) : n \in 1..MaxChain }
    /\ current_transactions = <<>>
    /\ promised = <<>>
    /\ neigbouring_nodes = Netlocs
    /\ CallInit
    /\ AuxIdle
    /\ startChain = chain
    /\ fetched = <<>>
    /\ ProbeIdle

ObservedBegin ==
    /\ op = "init"
    /\ ResolveBegin
    /\ startChain' = chain
    /\ fetched' = <<>>

ObservedVisit(node, resp) ==
    /\ ResolveVisit(node, resp)
    /\ fetched' = Append(fetched, resp)
    /\ UNCHANGED startChain

NextResolve ==
    \/ ObservedBegin /\ UNCHANGED <<probe, aux>>
    \/ \E n \in Netlocs, r \in Responses :
          ObservedVisit(n, r) /\ UNCHANGED <<probe, aux>>
    \/ ResolveReturn /\ UNCHANGED <<hist, probe, aux>>

SpecResolve == InitResolve /\ [][NextResolve]_vars

---------------------------------------------------------------------------
(* Vocabulary of the claims about resolve. *)

\* The fetch produced a chain and its reported length.
Fetched(r) ==
    r.reachable /\ r.status_code = StatusOk /\ r.has_length /\ r.has_chain

\* Unreachable peer, non-success status or malformed response.
FetchFailure(r) == ~Fetched(r)

\* ChainValidator.isValid as the specification states it: every adjacent
\* pair is linked by hash and by proof (true of the empty and of the
\* one-block sequence).
PairwiseValid(c) ==
    \A i \in 1..(Len(c) - 1) :
        /\ c[i + 1].previous_hash = hash(c[i])
        /\ valid_proof(c[i].proof, c[i + 1].proof)

\* Positions of the fetched chains that valid_chain accepts.
FetchedValid ==
    { i \in DOMAIN fetched :
        Fetched(fetched[i]) /\ valid_chain(fetched[i].chain) = "True" }

\* C1: resolve never shortens the local chain, whatever the peers answer.
C1_NeverShortens ==
    rpc # "idle" => Len(chain) >= Len(startChain)

\* C2: when resolve has returned and some fetched valid chain reports a
\* length greater than the local length at the start, resolve returned true
\* and the local chain is a fetched valid chain of greatest reported length.
C2_AdoptsGreatestReported ==
    (/\ rpc = "returned"
     /\ \E i \in FetchedValid : fetched[i].length > Len(startChain))
    => /\ replaced
       /\ \E i \in FetchedValid :
            /\ chain = fetched[i].chain
            /\ \A j \in FetchedValid : fetched[j].length <= fetched[i].length

\* C3: during and after resolve the local chain is the chain held at the
\* start or, block for block, one fetched chain that passes isValid.
C3_WholesaleValidOnly ==
    rpc # "idle" =>
        \/ chain = startChain
        \/ \E i \in DOMAIN fetched :
             /\ Fetched(fetched[i])
             /\ chain = fetched[i].chain
             /\ PairwiseValid(fetched[i].chain)

\* C3 witness: resolve returned after rejecting a chain that fails
\* validation although it reported a greater length, and adopting another.
C3_Witness ==
    /\ rpc = "returned"
    /\ replaced
    /\ chain # startChain
    /\ \E i \in DOMAIN fetched :
         /\ Fetched(fetched[i])
         /\ fetched[i].length > Len(chain)
         /\ ~PairwiseValid(fetched[i].chain)

\* C4: a fetch failure is skipped: resolve never ends with an exception
\* raised by the fetch that failed.
C4_FetchFailureSkipped ==
    rpc = "raised" => ~FetchFailure(fetched[Len(fetched)])

\* C5: when resolve has ended and no fetched chain is both valid and longer
\* than the local chain (by its reported length or by its number of blocks),
\* resolve returned false and the local chain is the one held at the start.
C5_NoLongerValidKeepsChain ==
    (/\ rpc \in {"returned", "raised"}
     /\ \A i \in DOMAIN fetched :
          ~(/\ Fetched(fetched[i])
            /\ PairwiseValid(fetched[i].chain)
            /\ \/ fetched[i].length > Len(startChain)
               \/ Len(fetched[i].chain) > Len(startChain)))
    => /\ rpc = "returned"
       /\ ~replaced
       /\ chain = startChain

---------------------------------------------------------------------------
(* valid_chain applied to candidate chains: as they are, after one field of *)
(* one non-first block was changed, or cut down to their first k blocks.    *)

\* The values a field of a block may be changed to.
FieldValues(f) ==
    IF f = "index" THEN 1..(MaxPeerLen + 1)
    ELSE IF f = "transactions" THEN { <<>>, <<PeerReward>>, <<Reward>> }
    ELSE IF f = "proof" THEN { 100, 35293, 88145, 35089, 50265, 119678 }
    ELSE { PyInt(GenesisPreviousHash), hash(Genesis),
           hash(Forge(<<Genesis>>, "ok")) }

Fields == {"index", "transactions", "proof", "previous_hash"}

InitValid ==
    /\ LedgerInit
    /\ CallInit
    /\ AuxIdle
    /\ HistInit
    /\ base \in Candidates
    /\ cand = base
    /\ how = "as_is"
    /\ mutK = 0
    /\ mutField = "none"
    /\ vres = "none"

\* Field f of block k (not the first) is changed to the different value v;
\* no other block is touched.
MutateField(k, f, v) ==
    /\ how = "as_is"
    /\ vres = "none"
    /\ k \in 2..Len(cand)
    /\ v # cand[k][f]
    /\ cand' = [cand EXCEPT ![k][f] = v]
    /\ how' = "mutated"
    /\ mutK' = k
    /\ mutField' = f
    /\ UNCHANGED <<base, vres>>

\* The candidate is cut down to its first k blocks.
Truncate(k) ==
    /\ how = "as_is"
    /\ vres = "none"
    /\ k \in 1..Len(cand)
    /\ cand' = SubSeq(cand, 1, k)
    /\ how' = "truncated"
    /\ UNCHANGED <<base, mutK, mutField, vres>>

\* valid_chain(cand) is called; the candidate is only read.
ValidChainCall ==
    /\ vres = "none"
    /\ vres' = valid_chain(cand)
    /\ UNCHANGED <<base, cand, how, mutK, mutField>>

NextValid ==
    \/ \E k \in 2..MaxPeerLen, f \in Fields :
          \E v \in FieldValues(f) :
             MutateField(k, f, v) /\ UNCHANGED <<ledger, call, promised, hist, aux>>
    \/ \E k \in 1..MaxPeerLen :
          Truncate(k) /\ UNCHANGED <<ledger, call, promised, hist, aux>>
    \/ ValidChainCall /\ UNCHANGED <<ledger, call, promised, hist, aux>>

SpecValid == InitValid /\ [][NextValid]_vars

\* C6: valid_chain returns a boolean for every candidate, the empty one
\* included, and it returns true exactly when every adjacent pair is linked
\* by hash and by proof.
C6_TotalAndPairwise ==
    vres # "none" =>
        /\ vres \in {"True", "False"}
        /\ (vres = "True") <=> PairwiseValid(cand)

\* C7: after any single field of any non-first block of a valid chain was
\* changed, the last block included, valid_chain returns false.
C7_AnyMutationInvalidates ==
    (/\ how = "mutated"
     /\ vres # "none"
     /\ Len(base) >= 1
     /\ PairwiseValid(base))
    => vres = "False"

\* C7 as amended: valid_chain returns false after a single field was changed
\* in a non-first block that has a successor, or after the previous_hash of
\* any non-first block was changed.
C7_LinkedMutationInvalidates ==
    (/\ how = "mutated"
     /\ vres # "none"
     /\ Len(base) >= 1
     /\ PairwiseValid(base)
     /\ (mutK < Len(base) \/ mutField = "previous_hash"))
    => vres = "False"

\* C7 witness: the transactions of a block in the middle of a valid chain
\* were changed and valid_chain rejected the chain.
C7_Witness ==
    /\ how = "mutated"
    /\ vres = "False"
    /\ PairwiseValid(base)
    /\ mutK >= 2
    /\ mutK < Len(base)
    /\ mutField = "transactions"

\* C8: the first k blocks (k >= 1) of a chain valid_chain accepts are
\* accepted by valid_chain.
C8_PrefixClosed ==
    (/\ how = "truncated"
     /\ vres # "none"
     /\ valid_chain(base) = "True")
    => vres = "True"

\* C8 witness: a proper prefix of two or more blocks of an accepted chain
\* was accepted.
C8_Witness ==
    /\ how = "truncated"
    /\ vres = "True"
    /\ valid_chain(base) = "True"
    /\ Len(cand) >= 2
    /\ Len(cand) < Len(base)

---------------------------------------------------------------------------
(* proof_of_work(last_proof) run step by step: one call per behaviour, the  *)
(* while loop one test at a time.                                           *)

\* The candidates the loop may reach before the model stops it.
PowLimit == 500

\* The last proofs proof_of_work is called with: for all but the last the
\* first accepted candidate is 484, 84, 4, 8, 5, 2, 3, 0 and 0; the last
\* has none below 72608.
PowInputs == { 88, 884, 8848, 17260, 27227, 30916, 33173, 88914, 96750, 1 }

InitPow ==
    /\ LedgerInit
    /\ CallInit
    /\ HistInit
    /\ ProbeIdle
    /\ DigestIdle
    /\ RaceIdle
    /\ powLast \in PowInputs
    /\ powProof = 0
    /\ powPc = "idle"

\* The search starting with the candidate 1.
PowCall_StartsAtOne ==
    /\ powPc = "idle"
    /\ powProof' = 1
    /\ powPc' = "loop"
    /\ UNCHANGED powLast

\* proof = 0
PowCall ==
    /\ powPc = "idle"
    /\ powProof' = 0
    /\ powPc' = "loop"
    /\ UNCHANGED powLast

\* while self.valid_proof(last_proof, proof) is False: proof += 1
PowIterate ==
    /\ powPc = "loop"
    /\ ~valid_proof(powLast, powProof)
    /\ powProof < PowLimit
    /\ powProof' = powProof + 1
    /\ UNCHANGED <<powLast, powPc>>

\* The test of the loop fails: return proof
PowReturn ==
    /\ powPc = "loop"
    /\ valid_proof(powLast, powProof)
    /\ powPc' = "returned"
    /\ UNCHANGED <<powLast, powProof>>

NextPow ==
    \/ PowCall /\ UNCHANGED <<ledger, call, promised, hist, probe, digest, race>>
    \/ PowIterate /\ UNCHANGED <<ledger, call, promised, hist, probe, digest, race>>
    \/ PowReturn /\ UNCHANGED <<ledger, call, promised, hist, probe, digest, race>>

\* The thread that runs the loop keeps running.
SpecPow == InitPow /\ [][NextPow]_vars /\ WF_vars(NextPow)

\* C14: proof_of_work returns a candidate valid_proof accepts, valid_proof
\* rejects every smaller candidate from 0 on, and the search ends whenever
\* an accepted candidate exists.
C14_LeastAcceptedAndTerminates ==
    /\ [](powPc = "returned" =>
            /\ valid_proof(powLast, powProof)
            /\ \A c \in 0..(powProof - 1) : ~valid_proof(powLast, c)
            /\ powProof = proof_of_work(powLast))
    /\ (\E c \in 0..PowLimit : valid_proof(powLast, c))
           => <>(powPc = "returned")

\* C14 witness: the search returned 84 for last_proof 884 after rejecting
\* the candidates 0 to 83.
C14_Witness ==
    /\ powPc = "returned"
    /\ powLast = 884
    /\ powProof = 84

---------------------------------------------------------------------------
(* hash applied to two dicts that hold the same field values, inserted in   *)
(* any two orders.                                                          *)

\* The blocks that are hashed: the genesis block, blocks a peer built, and
\* blocks this node mined with and without submitted transactions.
HashBlocks ==
    { Genesis }
    \cup { Forge(<<Genesis>>, v) : v \in Variants }
    \cup { MinedBlock(<<Genesis>>, <<>>) }
    \cup { MinedBlock(<<Genesis>>, <<t>>) : t \in UserTxs }

\* The orders in which the four fields may have been inserted.
Orders ==
    { o \in [1..4 -> {"index", "previous_hash", "proof", "transactions"}] :
        \A i, j \in 1..4 : o[i] = o[j] => i = j }

InitHash ==
    /\ LedgerInit
    /\ CallInit
    /\ HistInit
    /\ ProbeIdle
    /\ SearchIdle
    /\ RaceIdle
    /\ hBlock \in HashBlocks
    /\ hOrderA \in Orders
    /\ hOrderB \in Orders
    /\ hDigestA = PyNone
    /\ hDigestB = PyNone

\* hash(first dict): the dict is only read.
HashCallA ==
    /\ hDigestA = PyNone
    /\ hDigestA' = hash_items(Dict(hBlock, hOrderA))
    /\ UNCHANGED <<hBlock, hOrderA, hOrderB, hDigestB>>

\* hash(second dict): the dict is only read.
HashCallB ==
    /\ hDigestB = PyNone
    /\ hDigestB' = hash_items(Dict(hBlock, hOrderB))
    /\ UNCHANGED <<hBlock, hOrderA, hOrderB, hDigestA>>

NextHash ==
    \/ HashCallA /\ UNCHANGED <<ledger, call, promised, hist, probe, search, race>>
    \/ HashCallB /\ UNCHANGED <<ledger, call, promised, hist, probe, search, race>>

SpecHash == InitHash /\ [][NextHash]_vars

\* C16: hash is a function of the field values alone: two dicts with the
\* same value for every field get the same digest whatever the order their
\* fields were inserted in, and a call of hash leaves the dict as it was.
C16_HashIgnoresInsertionOrder ==
    /\ [](/\ hDigestA # PyNone => hDigestA = hash(hBlock)
          /\ hDigestB # PyNone => hDigestB = hash(hBlock)
          /\ (hDigestA # PyNone /\ hDigestB # PyNone) => hDigestA = hDigestB)
    /\ [][ /\ hBlock' = hBlock
           /\ hOrderA' = hOrderA
           /\ hOrderB' = hOrderB ]_vars

\* C16 witness: a block with two transactions was hashed from a dict that
\* has its transactions first and from one that has its index first.
C16_Witness ==
    /\ hDigestA # PyNone
    /\ hDigestB # PyNone
    /\ hOrderA[1] = "transactions"
    /\ hOrderB[1] = "index"
    /\ Len(hBlock.transactions) = 2

---------------------------------------------------------------------------
(* One GET /mine and one GET /nodes/resolve handled at the same time by two *)
(* threads with no lock: the steps of the two handlers interleave at every  *)
(* read and write of self.chain.                                            *)

InitRace ==
    /\ chain \in { MinedChain(n) : n \in 1..(MaxChain - 1) }
    /\ current_transactions \in { <<>> } \cup { <<t>> : t \in UserTxs }
    /\ promised = [ i \in DOMAIN current_transactions |->
                        Last(chain).index + 1 ]
    /\ neigbouring_nodes = Netlocs
    /\ CallInit
    /\ HistInit
    /\ ProbeIdle
    /\ SearchIdle
    /\ DigestIdle
    /\ RaceIdle

\* mine(): last_block = blockchain.last_block and the proof of work on its
\* proof.
RaceMineRead ==
    /\ mPc = "idle"
    /\ mLast' = Last(chain)
    /\ mProof' = proof_of_work(Last(chain).proof)
    /\ mPc' = "read"
    /\ UNCHANGED <<ledger, promised, call, mBlock, rHas, rSwap>>

\* mine(): new_transaction appends the reward to the pending buffer.
RaceMineReward ==
    /\ mPc = "read"
    /\ current_transactions' = Append(current_transactions, Reward)
    /\ promised' = Append(promised, Last(chain).index + 1)
    /\ mPc' = "rewarded"
    /\ UNCHANGED <<chain, neigbouring_nodes, call, mLast, mProof, mBlock,
                   rHas, rSwap>>

\* new_block called without previous_hash: the hash of the block that is
\* last when the block is built is used.
RaceMineBuild_HashAtBuild ==
    /\ mPc = "rewarded"
    /\ mBlock' = new_block(chain, current_transactions, mProof, PyNone)
    /\ mPc' = "built"
    /\ UNCHANGED <<ledger, promised, call, mLast, mProof, rHas, rSwap>>

\* mine(): previous_hash = hash(last_block) of the block read at the start,
\* and new_block builds the block from the chain as it is now.
RaceMineBuild ==
    /\ mPc = "rewarded"
    /\ mBlock' = new_block(chain, current_transactions, mProof, hash(mLast))
    /\ mPc' = "built"
    /\ UNCHANGED <<ledger, promised, call, mLast, mProof, rHas, rSwap>>

\* new_block: the buffer is reset and the block is appended to the list
\* self.chain refers to now.
RaceMineAppend ==
    /\ mPc = "built"
    /\ current_transactions' = <<>>
    /\ promised' = <<>>
    /\ chain' = Append(chain, mBlock)
    /\ mPc' = "done"
    /\ UNCHANGED <<neigbouring_nodes, call, mLast, mProof, mBlock, rHas,
                   rSwap>>

\* resolve_conflicts is entered, once.
RaceResolveBegin ==
    /\ op = "init"
    /\ ResolveBegin
    /\ UNCHANGED race

\* The loop body for one node up to the test of line 78, which reads
\* len(self.chain).
RaceResolveCheck(node, resp) ==
    /\ rpc = "running"
    /\ ~rHas
    /\ node \in unvisited
    /\ unvisited' = unvisited \ {node}
    /\ LET o == VisitOutcome(chain, resp)
       IN  /\ rpc' = IF o = "raise" THEN "raised" ELSE "running"
           /\ rHas' = (o = "adopt")
           /\ rSwap' = IF o = "adopt" THEN resp.chain ELSE <<>>
    /\ UNCHANGED <<ledger, promised, op, replaced, mPc, mLast, mProof,
                   mBlock>>

\* self.chain = chain; replaced = True
RaceResolveSwap ==
    /\ rpc = "running"
    /\ rHas
    /\ chain' = rSwap
    /\ replaced' = TRUE
    /\ rHas' = FALSE
    /\ rSwap' = <<>>
    /\ UNCHANGED <<current_transactions, neigbouring_nodes, promised, op, rpc,
                   unvisited, mPc, mLast, mProof, mBlock>>

\* return replaced
RaceResolveReturn ==
    /\ ~rHas
    /\ ResolveReturn
    /\ UNCHANGED race

NextRace ==
    \/ RaceMineRead /\ UNCHANGED <<hist, probe, search, digest>>
    \/ RaceMineReward /\ UNCHANGED <<hist, probe, search, digest>>
    \/ RaceMineBuild /\ UNCHANGED <<hist, probe, search, digest>>
    \/ RaceMineAppend /\ UNCHANGED <<hist, probe, search, digest>>
    \/ RaceResolveBegin /\ UNCHANGED <<hist, probe, search, digest>>
    \/ \E n \in Netlocs, r \in Responses :
          RaceResolveCheck(n, r) /\ UNCHANGED <<hist, probe, search, digest>>
    \/ RaceResolveSwap /\ UNCHANGED <<hist, probe, search, digest>>
    \/ RaceResolveReturn /\ UNCHANGED <<hist, probe, search, digest>>

SpecRace == InitRace /\ [][NextRace]_vars

\* C17: when /mine and /nodes/resolve run at the same time, the block mine
\* appends is linked to the block mine read at its start; whenever resolve
\* has swapped the chain in between so that another block is last, the
\* appended block's previous_hash is not the hash of its predecessor and
\* the local chain fails valid_chain.
C17_StaleLinkAfterSwap ==
    [][ (mPc = "built" /\ mPc' = "done") =>
          /\ SubSeq(chain', 1, Len(chain)) = chain
          /\ Last(chain').previous_hash = hash(mLast)
          /\ Last(chain) # mLast =>
                /\ Last(chain').previous_hash # hash(Last(chain))
                /\ valid_chain(chain') = "False"
      ]_vars

\* C17 witness: mine read the last block and found its proof, resolve
\* swapped in a peer's chain, and mine appended its block to that chain:
\* the local chain fails valid_chain.
C17_Witness ==
    /\ mPc = "done"
    /\ replaced
    /\ Last(chain) = mBlock
    /\ chain[Len(chain) - 1] # mLast
    /\ chain[Len(chain) - 1].transactions = <<PeerReward>>
    /\ Last(chain).previous_hash # hash(chain[Len(chain) - 1])
    /\ valid_chain(chain) = "False"

---------------------------------------------------------------------------
(* Claims about the ledger operations, checked under Spec. *)

\* C9: new_block seals exactly the pending transactions (one transaction
\* after one new_transaction on an empty buffer, none when nothing was
\* submitted since the last seal) and leaves the buffer empty, and
\* new_transaction changes no sealed block.
C9_SealTakesPendingAndClears ==
    [][ /\ op' = "new_block" =>
            /\ Len(chain') = Len(chain) + 1
            /\ Last(chain').transactions = current_transactions
            /\ current_transactions' = <<>>
        /\ op' = "new_transaction" =>
            /\ chain' = chain
            /\ Len(current_transactions') = Len(current_transactions) + 1
      ]_vars

\* C9 witness: one transaction was submitted and sealed alone in block 2,
\* a second seal gave block 3 no transactions, and a transaction submitted
\* later is pending while block 2 still holds exactly the first one.
C9_Witness ==
    /\ op = "new_transaction"
    /\ Len(chain) = 3
    /\ chain[2].transactions \in { <<t>> : t \in UserTxs }
    /\ chain[3].transactions = <<>>
    /\ Len(current_transactions) = 1

\* C10: the index new_transaction returned for a pending transaction is the
\* index of the block the next new_block or mine seals it in.
C10_PromisedIndexIsSealedIndex ==
    [][ op' \in {"new_block", "mine"} =>
            \A i \in DOMAIN promised : promised[i] = Last(chain').index
      ]_vars

\* C11: right after construction the chain is the genesis block alone
\* (index 1, proof 100, previous_hash the sentinel 1, no transactions), and
\* the pending buffer and the set of peers are empty.
C11_ConstructedLedger ==
    op = "init" =>
        /\ chain = << [ index         |-> 1,
                        transactions  |-> <<>>,
                        proof         |-> 100,
                        previous_hash |-> PyInt(1) ] >>
        /\ current_transactions = <<>>
        /\ neigbouring_nodes = {}

\* C11 witness: the ledger as the constructor leaves it, one block long.
C11_Witness ==
    /\ op = "init"
    /\ Len(chain) = 1
    /\ rpc = "idle"

\* C12: in every reachable state the block at position i of the local chain
\* has index i.
C12_IndexIsPosition ==
    \A i \in DOMAIN chain : chain[i].index = i

\* C15: new_block builds the block with index len(chain) + 1 and with the
\* previous_hash the caller supplied whenever one was supplied, whatever its
\* value (0 and the empty string included), and with the hash of the last
\* block only when none was supplied; it appends exactly that block.
C15_SuppliedPreviousHashKept ==
    [][ \A p \in ProofInputs, h \in PreviousHashInputs :
          NewBlock(p, h) =>
            /\ SubSeq(chain', 1, Len(chain)) = chain
            /\ Len(chain') = Len(chain) + 1
            /\ Last(chain').index = Len(chain) + 1
            /\ Last(chain').proof = p
            /\ Last(chain').previous_hash =
                  (IF h # PyNone THEN h ELSE hash(Last(chain)))
      ]_vars

\* C18: the chain is append-only between replacements: new_transaction and
\* register_node leave it as it was, new_block and mine keep every block
\* and add exactly one at the end, and resolve leaves it as it was unless
\* it replaces it.
C18_AppendOnlyBetweenReplacements ==
    [][ /\ op' \in {"new_transaction", "register_node"} => chain' = chain
        /\ op' \in {"new_block", "mine"} =>
              /\ Len(chain') = Len(chain) + 1
              /\ SubSeq(chain', 1, Len(chain)) = chain
        /\ (op' = "resolve_conflicts" /\ ~replaced') => chain' = chain
      ]_vars

\* C18 witness: a block was mined on top of a block that holds a submitted
\* transaction, and a transaction was submitted after that.
C18_Witness ==
    /\ op = "new_transaction"
    /\ Len(chain) = 3
    /\ Len(chain[2].transactions) = 2
    /\ chain[3].transactions = <<Reward>>
    /\ Len(current_transactions) = 1

---------------------------------------------------------------------------
(* Claims about the request handlers, checked under SpecHttp. *)

\* C19: the block mine seals holds the pending transactions in the order
\* they were submitted, followed by the reward {sender '0', recipient the
\* node identifier, amount 1} as its last transaction; so it holds at least
\* one transaction, and the buffer is empty after mine.
C19_MineSealsPendingThenReward ==
    [][ op' = "mine" =>
          /\ Last(chain').transactions =
                Append(current_transactions,
                       [sender |-> 0, recipient |-> node_identifier,
                        amount |-> 1])
          /\ Len(Last(chain').transactions) >= 1
          /\ current_transactions' = <<>>
      ]_vars

\* C19 witness: mine sealed two submitted transactions and its reward.
C19_Witness ==
    /\ op = "mine"
    /\ Len(Last(chain).transactions) = 3
    /\ Last(chain).transactions[1] \in UserTxs
    /\ Last(chain).transactions[3] = Reward
    /\ current_transactions = <<>>

\* C20: resolve changes nothing but the chain: the pending buffer and the
\* set of peers are the same before and after, so the transactions pending
\* before a swap are sealed in the next block mined on the adopted chain.
C20_ResolveKeepsPendingAndPeers ==
    [][ /\ op' = "resolve_conflicts" =>
              /\ current_transactions' = current_transactions
              /\ neigbouring_nodes' = neigbouring_nodes
        /\ (op = "resolve_conflicts" /\ replaced /\ op' = "mine") =>
              /\ SubSeq(chain', 1, Len(chain)) = chain
              /\ SubSeq(Last(chain').transactions, 1,
                        Len(current_transactions)) = current_transactions
      ]_vars

\* C20 witness: resolve returned after adopting a peer's chain while a
\* submitted transaction was pending; the transaction is still pending and
\* both peers are still registered.
C20_Witness ==
    /\ op = "resolve_conflicts"
    /\ rpc = "returned"
    /\ replaced
    /\ chain[Len(chain)].transactions = <<PeerReward>>
    /\ Len(current_transactions) = 1
    /\ neigbouring_nodes = Netlocs

\* C13: with requests handled one at a time and peers answering anything,
\* the local chain always passes valid_chain: every block after the first
\* is linked to its predecessor by hash and by proof.
C13_LocalChainAlwaysValid ==
    /\ valid_chain(chain) = "True"
    /\ PairwiseValid(chain)

\* C13 witness: a peer's chain was adopted by resolve and a block was then
\* mined on top of it.
C13_Witness ==
    /\ op = "mine"
    /\ Len(chain) = 3
    /\ chain[2].transactions = <<PeerReward>>
    /\ Reward \in { chain[3].transactions[i] :
                       i \in DOMAIN chain[3].transactions }

=============================================================================
